---------------------------- MODULE Spec2Model ----------------------------
(***************************************************************************)
(* Model of the forum-topic example of grammers-client:                    *)
(*   - types/message.rs: Message::from_raw, from_raw_short_updates,        *)
(*     is_forum_topic, topic_id, is_in_topic, is_in_topics,                *)
(*     debug_topic_info, refetch;                                          *)
(*   - examples/forum-topic-filter.rs: handle_update, async_main (the      *)
(*     update dispatch loop) and main (the current-thread runtime).        *)
(***************************************************************************)
EXTENDS Integers, Sequences, FiniteSets, TLC

VARIABLES
    pc,             \* position of async_main
    result,         \* what async_main returned: "none", "Ok", "Err"
    stopped_by,     \* why async_main left its loop (or never entered it)
    exit_ready,     \* the ctrl_c() arm of the select is ready
    inbox,          \* updates the client holds, not yet returned by next_update
    arrived,        \* number of updates that reached the client so far
    received,       \* arrival numbers of the updates next_update returned, in order
    tasks,          \* the spawned handler tasks, in spawn order
    completed,      \* indices into tasks, in the order the handlers returned
    diag,           \* indices into tasks whose error went to eprintln
    log,            \* the steps of async_main, in order
    allowed_topics, \* the Vec built from the command line
    snapshot,       \* Option<Message>: the value from_raw returned
    answer,         \* the last query made on the snapshot and what it returned
    wire            \* Option: the input the snapshot was built from

loopvars == <<pc, result, stopped_by, exit_ready, inbox, arrived, received,
              tasks, completed, diag, log, allowed_topics>>
msgvars == <<snapshot, answer, wire>>
vars == <<pc, result, stopped_by, exit_ready, inbox, arrived, received,
          tasks, completed, diag, log, allowed_topics, snapshot, answer, wire>>

---------------------------------------------------------------------------
(* Bounds *)

\* Message and topic identifiers are drawn from 1..MaxId.
MaxId == 2
\* Number of updates that reach the client during one run.
MaxUpdates == 3
\* Longest list of topic identifiers passed to is_in_topics.
MaxTopics == 2

Ids == 1..MaxId

---------------------------------------------------------------------------
(* Option<T>: None is the empty sequence, Some(x) the one-element sequence *)

None == << >>
Some(x) == <<x>>
IsSome(o) == o # None
Unwrap(o) == o[1]
OptionOf(S) == {None} \cup {Some(x) : x \in S}

---------------------------------------------------------------------------
(* tl::enums::MessageReplyHeader as topic_id and is_forum_topic read it *)

\* The two variants the code destructures.
HeaderVariants == {"Header", "MessageReplyHeader"}

\* A variant matched by neither arm (the wildcard arm of the match).
OtherHeader == [variant |-> "Other"]

ReplyHeaders ==
    [variant : HeaderVariants,
     forum_topic : BOOLEAN,
     reply_to_top_id : OptionOf(Ids),
     reply_to_msg_id : OptionOf(Ids)] \cup {OtherHeader}

---------------------------------------------------------------------------
(* Wire records: tl::enums::Message with its three variants *)

\* tl::types::Message with every flag equal to f, every optional field equal
\* to o, and the reply header r.
FullRecord(id, f, o, r) ==
    [out |-> f, mentioned |-> f, media_unread |-> f, silent |-> f, post |-> f,
     from_scheduled |-> f, legacy |-> f, edit_hide |-> f, pinned |-> f,
     noforwards |-> f, invert_media |-> f, video_processing_pending |-> f,
     id |-> id, from_id |-> o, from_boosts_applied |-> o, peer_id |-> 1,
     saved_peer_id |-> o, fwd_from |-> o, via_bot_id |-> o, reply_to |-> r,
     date |-> 1, message |-> IF f THEN "text" ELSE "", media |-> o,
     reply_markup |-> o, entities |-> o, views |-> o, forwards |-> o,
     replies |-> o, edit_date |-> o, post_author |-> o, grouped_id |-> o,
     restriction_reason |-> o, ttl_period |-> o, reactions |-> o,
     quick_reply_shortcut_id |-> o, via_business_bot_id |-> o, offline |-> f,
     effect |-> o, factcheck |-> o, report_delivery_until_date |-> o]

\* tl::types::MessageService: the fields the service shape carries.
ServiceRecord(id, f, o, r, a) ==
    [out |-> f, mentioned |-> f, media_unread |-> f, silent |-> f, post |-> f,
     legacy |-> f, id |-> id, from_id |-> o, peer_id |-> 1, reply_to |-> r,
     date |-> 1, action |-> a, ttl_period |-> o]

Actions == {"ChatAddUser", "PinMessage"}

WireRecords ==
    {[variant |-> "Empty", id |-> id] : id \in Ids}
    \cup {[variant |-> "Message", msg |-> FullRecord(1, f, o, r)] :
            f \in BOOLEAN, o \in OptionOf({1}), r \in OptionOf(ReplyHeaders)}
    \cup {[variant |-> "Service", msg |-> ServiceRecord(1, f, o, r, a)] :
            f \in BOOLEAN, o \in OptionOf({1}), r \in OptionOf(ReplyHeaders),
            a \in Actions}

---------------------------------------------------------------------------
(* Message::from_raw *)

\* A from_raw that surfaces an empty record as a snapshot without content.
from_raw_emptyShell(message) ==
    CASE message.variant = "Empty" ->
            Some([raw |-> FullRecord(message.id, FALSE, None, None),
                  raw_action |-> None])
      [] message.variant = "Message" ->
            Some([raw |-> message.msg, raw_action |-> None])
      [] message.variant = "Service" ->
            Some([raw |->
                    [out |-> message.msg.out,
                     mentioned |-> message.msg.mentioned,
                     media_unread |-> message.msg.media_unread,
                     silent |-> message.msg.silent,
                     post |-> message.msg.post,
                     from_scheduled |-> FALSE,
                     legacy |-> message.msg.legacy,
                     edit_hide |-> FALSE,
                     pinned |-> FALSE,
                     noforwards |-> FALSE,
                     invert_media |-> FALSE,
                     video_processing_pending |-> FALSE,
                     id |-> message.msg.id,
                     from_id |-> message.msg.from_id,
                     from_boosts_applied |-> None,
                     peer_id |-> message.msg.peer_id,
                     saved_peer_id |-> None,
                     fwd_from |-> None,
                     via_bot_id |-> None,
                     reply_to |-> message.msg.reply_to,
                     date |-> message.msg.date,
                     message |-> "",
                     media |-> None,
                     reply_markup |-> None,
                     entities |-> None,
                     views |-> None,
                     forwards |-> None,
                     replies |-> None,
                     edit_date |-> None,
                     post_author |-> None,
                     grouped_id |-> None,
                     restriction_reason |-> None,
                     ttl_period |-> message.msg.ttl_period,
                     reactions |-> None,
                     quick_reply_shortcut_id |-> None,
                     via_business_bot_id |-> None,
                     offline |-> FALSE,
                     effect |-> None,
                     factcheck |-> None,
                     report_delivery_until_date |-> None],
                  raw_action |-> Some(message.msg.action)])

\* A from_raw that does not carry media_unread over from a service record.
from_raw_unreadDropped(message) ==
    CASE message.variant = "Empty" -> None
      [] message.variant = "Message" ->
            Some([raw |-> message.msg, raw_action |-> None])
      [] message.variant = "Service" ->
            Some([raw |->
                    [out |-> message.msg.out,
                     mentioned |-> message.msg.mentioned,
                     media_unread |-> FALSE,
                     silent |-> message.msg.silent,
                     post |-> message.msg.post,
                     from_scheduled |-> FALSE,
                     legacy |-> message.msg.legacy,
                     edit_hide |-> FALSE,
                     pinned |-> FALSE,
                     noforwards |-> FALSE,
                     invert_media |-> FALSE,
                     video_processing_pending |-> FALSE,
                     id |-> message.msg.id,
                     from_id |-> message.msg.from_id,
                     from_boosts_applied |-> None,
                     peer_id |-> message.msg.peer_id,
                     saved_peer_id |-> None,
                     fwd_from |-> None,
                     via_bot_id |-> None,
                     reply_to |-> message.msg.reply_to,
                     date |-> message.msg.date,
                     message |-> "",
                     media |-> None,
                     reply_markup |-> None,
                     entities |-> None,
                     views |-> None,
                     forwards |-> None,
                     replies |-> None,
                     edit_date |-> None,
                     post_author |-> None,
                     grouped_id |-> None,
                     restriction_reason |-> None,
                     ttl_period |-> message.msg.ttl_period,
                     reactions |-> None,
                     quick_reply_shortcut_id |-> None,
                     via_business_bot_id |-> None,
                     offline |-> FALSE,
                     effect |-> None,
                     factcheck |-> None,
                     report_delivery_until_date |-> None],
                  raw_action |-> Some(message.msg.action)])

from_raw(message) ==
    CASE message.variant = "Empty" -> None
      [] message.variant = "Message" ->
            Some([raw |-> message.msg, raw_action |-> None])
      [] message.variant = "Service" ->
            Some([raw |->
                    [out |-> message.msg.out,
                     mentioned |-> message.msg.mentioned,
                     media_unread |-> message.msg.media_unread,
                     silent |-> message.msg.silent,
                     post |-> message.msg.post,
                     from_scheduled |-> FALSE,
                     legacy |-> message.msg.legacy,
                     edit_hide |-> FALSE,
                     pinned |-> FALSE,
                     noforwards |-> FALSE,
                     invert_media |-> FALSE,
                     video_processing_pending |-> FALSE,
                     id |-> message.msg.id,
                     from_id |-> message.msg.from_id,
                     from_boosts_applied |-> None,
                     peer_id |-> message.msg.peer_id,
                     saved_peer_id |-> None,
                     fwd_from |-> None,
                     via_bot_id |-> None,
                     reply_to |-> message.msg.reply_to,
                     date |-> message.msg.date,
                     message |-> "",
                     media |-> None,
                     reply_markup |-> None,
                     entities |-> None,
                     views |-> None,
                     forwards |-> None,
                     replies |-> None,
                     edit_date |-> None,
                     post_author |-> None,
                     grouped_id |-> None,
                     restriction_reason |-> None,
                     ttl_period |-> message.msg.ttl_period,
                     reactions |-> None,
                     quick_reply_shortcut_id |-> None,
                     via_business_bot_id |-> None,
                     offline |-> FALSE,
                     effect |-> None,
                     factcheck |-> None,
                     report_delivery_until_date |-> None],
                  raw_action |-> Some(message.msg.action)])

---------------------------------------------------------------------------
(* Message::from_raw_short_updates *)

\* A synthesized header that marks the reply target as a forum topic.
short_reply_header_topic(reply_to_msg_id) ==
    [variant |-> "Header",
     forum_topic |-> TRUE,
     reply_to_msg_id |-> Some(reply_to_msg_id),
     reply_to_top_id |-> Some(reply_to_msg_id)]

\* The header the closure of input.reply_to.map builds.
short_reply_header(reply_to_msg_id) ==
    [variant |-> "Header",
     forum_topic |-> FALSE,
     reply_to_msg_id |-> Some(reply_to_msg_id),
     reply_to_top_id |-> None]

from_raw_short_updates(updates, input, chat) ==
    [raw |->
        [out |-> updates.out,
         mentioned |-> FALSE,
         media_unread |-> FALSE,
         silent |-> input.silent,
         post |-> FALSE,
         from_scheduled |-> FALSE,
         legacy |-> FALSE,
         edit_hide |-> FALSE,
         pinned |-> FALSE,
         noforwards |-> FALSE,
         video_processing_pending |-> FALSE,
         invert_media |-> input.invert_media,
         id |-> updates.id,
         from_id |-> None,
         from_boosts_applied |-> None,
         peer_id |-> chat,
         saved_peer_id |-> None,
         fwd_from |-> None,
         via_bot_id |-> None,
         reply_to |-> IF IsSome(input.reply_to)
                      THEN Some(short_reply_header(Unwrap(input.reply_to)))
                      ELSE None,
         date |-> updates.date,
         message |-> input.text,
         media |-> updates.media,
         reply_markup |-> input.reply_markup,
         entities |-> updates.entities,
         views |-> None,
         forwards |-> None,
         replies |-> None,
         edit_date |-> None,
         post_author |-> None,
         grouped_id |-> None,
         restriction_reason |-> None,
         ttl_period |-> updates.ttl_period,
         reactions |-> None,
         quick_reply_shortcut_id |-> None,
         via_business_bot_id |-> None,
         offline |-> FALSE,
         effect |-> None,
         factcheck |-> None,
         report_delivery_until_date |-> None],
     raw_action |-> None]

\* tl::types::UpdateShortSentMessage: the server's acknowledgment.
ShortUpdates ==
    {[out |-> f, id |-> 1, date |-> 1, media |-> o, entities |-> o,
      ttl_period |-> o] : f \in BOOLEAN, o \in OptionOf({1})}

\* InputMessage: the locally built outbound request.
InputMessages ==
    {[silent |-> f, invert_media |-> f, reply_to |-> r, text |-> "text",
      reply_markup |-> None] : f \in BOOLEAN, r \in OptionOf(Ids)}

---------------------------------------------------------------------------
(* Message::outgoing, is_forum_topic, topic_id, is_in_topic, is_in_topics *)

outgoing(m) == m.raw.out

is_forum_topic(m) ==
    IF IsSome(m.raw.reply_to) /\ Unwrap(m.raw.reply_to).variant \in HeaderVariants
    THEN Unwrap(m.raw.reply_to).forum_topic
    ELSE FALSE

\* The triple (forum_topic, reply_to_top_id, reply_to_msg_id) the inner match
\* of topic_id binds.
header_fields(header) ==
    IF header.variant \in HeaderVariants
    THEN <<header.forum_topic, header.reply_to_top_id, header.reply_to_msg_id>>
    ELSE <<FALSE, None, None>>

\* A topic_id that does not test the forum_topic flag.
topic_id_unflagged(m) ==
    IF IsSome(m.raw.reply_to)
    THEN LET t == header_fields(Unwrap(m.raw.reply_to))
         IN  IF IsSome(t[2]) THEN t[2] ELSE t[3]
    ELSE None

\* A topic_id that prefers reply_to_msg_id to reply_to_top_id.
topic_id_msgFirst(m) ==
    IF IsSome(m.raw.reply_to)
    THEN LET t == header_fields(Unwrap(m.raw.reply_to))
         IN  IF t[1]
             THEN IF IsSome(t[3]) THEN Some(Unwrap(t[3])) ELSE t[2]
             ELSE None
    ELSE None

\* A topic_id that answers 0 for a flagged message without identifiers.
topic_id_zero(m) ==
    IF IsSome(m.raw.reply_to)
    THEN LET t == header_fields(Unwrap(m.raw.reply_to))
         IN  IF t[1]
             THEN IF IsSome(t[2]) THEN Some(Unwrap(t[2]))
                  ELSE IF IsSome(t[3]) THEN t[3] ELSE Some(0)
             ELSE None
    ELSE None

topic_id(m) ==
    IF IsSome(m.raw.reply_to)
    THEN LET t == header_fields(Unwrap(m.raw.reply_to))
         IN  IF t[1]
             THEN IF IsSome(t[2]) THEN Some(Unwrap(t[2])) ELSE t[3]
             ELSE None
    ELSE None

\* slice::contains
Contains(s, x) == \E i \in 1..Len(s) : s[i] = x

\* An is_in_topic that takes a missing topic for topic 0.
is_in_topic_zeroDefault(m, t) ==
    IF IsSome(topic_id(m)) THEN Unwrap(topic_id(m)) = t ELSE t = 0

is_in_topic(m, t) ==
    IF IsSome(topic_id(m)) THEN Unwrap(topic_id(m)) = t ELSE FALSE

\* An is_in_topics that takes an empty list for "every topic".
is_in_topics_emptyIsAll(m, topic_ids) ==
    IF IsSome(topic_id(m))
    THEN topic_ids = << >> \/ Contains(topic_ids, Unwrap(topic_id(m)))
    ELSE FALSE

is_in_topics(m, topic_ids) ==
    IF IsSome(topic_id(m)) THEN Contains(topic_ids, Unwrap(topic_id(m))) ELSE FALSE

\* Message::debug_topic_info: the values the formatted string shows;
\* is_in_forum is what the chat lookup says.
debug_topic_info(m, is_in_forum) ==
    IF IsSome(m.raw.reply_to)
    THEN LET header == Unwrap(m.raw.reply_to)
             t == header_fields(header)
         IN  [message_id |-> m.raw.id,
              chat_is_forum |-> is_in_forum,
              variant |-> IF header.variant \in HeaderVariants
                          THEN header.variant ELSE "Unknown",
              forum_topic |-> t[1],
              reply_to_top_id |-> t[2],
              reply_to_msg_id |-> t[3],
              topic_id |-> topic_id(m)]
    ELSE [text |-> "No reply header found"]

---------------------------------------------------------------------------
(* handle_update: whether the handler reaches client.send_message *)

\* A handler that answers every forum message with a resolved topic.
handle_update_sends_anyTopic(update, topics) ==
    /\ update.kind = "NewMessage"
    /\ ~outgoing(update.message)
    /\ is_forum_topic(update.message)
    /\ IsSome(topic_id(update.message))

handle_update_sends(update, topics) ==
    /\ update.kind = "NewMessage"
    /\ ~outgoing(update.message)
    /\ is_forum_topic(update.message)
    /\ IsSome(topic_id(update.message))
    /\ is_in_topics(update.message, topics)

\* handle_update: whether send_message was called, and the Result returned
\* (send_ok is the outcome of send_message, propagated by `?`).
handle_update(update, topics, send_ok) ==
    [sent |-> handle_update_sends(update, topics),
     ret |-> IF handle_update_sends(update, topics) /\ ~send_ok
             THEN "Err" ELSE "Ok"]

\* An incoming message posted in forum topic t.
TopicMessage(t) ==
    Unwrap(from_raw([variant |-> "Message",
                     msg |-> FullRecord(1, FALSE, None,
                                Some([variant |-> "Header",
                                      forum_topic |-> TRUE,
                                      reply_to_top_id |-> Some(t),
                                      reply_to_msg_id |-> None]))]))

\* The updates next_update delivers in the dispatch model.
Updates ==
    {[kind |-> "Other"]}
    \cup {[kind |-> "NewMessage", message |-> TopicMessage(t)] : t \in {1, 2}}

\* env::args().nth(2): no topic, or one.
TopicArgs == {<< >>} \cup {<<t>> : t \in {1}}

---------------------------------------------------------------------------
(* State of the dispatch loop *)

NoAnswer == [op |-> "none"]

InitLoop ==
    /\ pc = "init"
    /\ result = "none"
    /\ stopped_by = "none"
    /\ exit_ready = FALSE
    /\ inbox = << >>
    /\ arrived = 0
    /\ received = << >>
    /\ tasks = << >>
    /\ completed = << >>
    /\ diag = << >>
    /\ log = << >>
    /\ allowed_topics \in TopicArgs

InitSnapshot ==
    /\ snapshot = None
    /\ answer = NoAnswer
    /\ wire = None

Init == InitLoop /\ InitSnapshot

Unfinished(st) == st \in {"spawned", "sending"}

\* Index sets over the handler tasks.
TaskIds == 1..Len(tasks)

---------------------------------------------------------------------------
(* async_main before the loop: connect, sign in when not authorized *)

Startup(authorized) ==
    /\ pc = "init"
    /\ pc' = "select"
    /\ log' = IF authorized THEN log ELSE Append(log, "signin_save")
    /\ UNCHANGED <<result, stopped_by, exit_ready, inbox, arrived, received,
                   tasks, completed, diag, allowed_topics>>

\* One of the `?` before the sign-in save returns the error: loading the
\* session, connecting, is_authorized or bot_sign_in failed.
StartupFail ==
    /\ pc = "init"
    /\ pc' = "returned"
    /\ result' = "Err"
    /\ stopped_by' = "startup"
    /\ UNCHANGED <<exit_ready, inbox, arrived, received, tasks, completed,
                   diag, log, allowed_topics>>

\* Not authorized, bot_sign_in succeeded, and the save_to_file that follows
\* it fails: the call is made and its error is returned by `?`.
SignInSaveFail ==
    /\ pc = "init"
    /\ pc' = "returned"
    /\ result' = "Err"
    /\ stopped_by' = "startup"
    /\ log' = Append(log, "signin_save")
    /\ UNCHANGED <<exit_ready, inbox, arrived, received, tasks, completed,
                   diag, allowed_topics>>

---------------------------------------------------------------------------
(* The two event sources *)

\* An update reaches the client; next_update will return it.
Arrive(u) ==
    /\ pc = "select"
    /\ arrived < MaxUpdates
    /\ arrived' = arrived + 1
    /\ inbox' = Append(inbox, [n |-> arrived + 1, upd |-> u])
    /\ UNCHANGED <<pc, result, stopped_by, exit_ready, received, tasks,
                   completed, diag, log, allowed_topics>>

\* Ctrl+C: the ctrl_c() future becomes ready.
RaiseShutdown ==
    /\ pc = "select"
    /\ ~exit_ready
    /\ exit_ready' = TRUE
    /\ UNCHANGED <<pc, result, stopped_by, inbox, arrived, received, tasks,
                   completed, diag, log, allowed_topics>>

---------------------------------------------------------------------------
(* The loop of async_main *)

\* select polls its second future first.
SelectWinner_updFirst(er, ur) ==
    IF ur THEN "Right" ELSE IF er THEN "Left" ELSE "Pending"

\* select(exit, upd): the first future is polled first.
SelectWinner(er, ur) ==
    IF er THEN "Left" ELSE IF ur THEN "Right" ELSE "Pending"

\* next_update hands out the newest update.
TakeUpdate_newest(q) ==
    [head |-> q[Len(q)], rest |-> SubSeq(q, 1, Len(q) - 1)]

\* next_update hands out the oldest update the client holds.
TakeUpdate(q) == [head |-> Head(q), rest |-> Tail(q)]

\* Only message updates get a handler task.
Spawn_onlyMessages(ts, u) ==
    IF u.upd.kind = "NewMessage"
    THEN Append(ts, [n |-> u.n, upd |-> u.upd, st |-> "spawned"])
    ELSE ts

\* task::spawn of the handler for update u.
Spawn(ts, u) == Append(ts, [n |-> u.n, upd |-> u.upd, st |-> "spawned"])

\* The break leaves async_main without the save.
ShutdownObserved_noSave ==
    /\ pc = "select"
    /\ SelectWinner(exit_ready, inbox # << >>) = "Left"
    /\ pc' = "returned"
    /\ result' = "Ok"
    /\ stopped_by' = "shutdown"
    /\ log' = Append(log, "shutdown")
    /\ UNCHANGED <<exit_ready, inbox, arrived, received, tasks, completed,
                   diag, allowed_topics>>

\* Either::Left(_) => break
ShutdownObserved ==
    /\ pc = "select"
    /\ SelectWinner(exit_ready, inbox # << >>) = "Left"
    /\ pc' = "draining"
    /\ stopped_by' = "shutdown"
    /\ log' = Append(log, "shutdown")
    /\ UNCHANGED <<result, exit_ready, inbox, arrived, received, tasks,
                   completed, diag, allowed_topics>>

\* The handler is awaited before the next select.
FetchUpdate_awaits ==
    /\ pc = "select"
    /\ \A i \in TaskIds : ~Unfinished(tasks[i].st)
    /\ SelectWinner(exit_ready, inbox # << >>) = "Right"
    /\ LET t == TakeUpdate(inbox)
       IN  /\ inbox' = t.rest
           /\ received' = Append(received, t.head.n)
           /\ tasks' = Spawn(tasks, t.head)
    /\ log' = Append(log, "update")
    /\ UNCHANGED <<pc, result, stopped_by, exit_ready, arrived, completed,
                   diag, allowed_topics>>

\* Either::Right((u, _)) => u? with u = Ok(update), then task::spawn.
FetchUpdate ==
    /\ pc = "select"
    /\ SelectWinner(exit_ready, inbox # << >>) = "Right"
    /\ LET t == TakeUpdate(inbox)
       IN  /\ inbox' = t.rest
           /\ received' = Append(received, t.head.n)
           /\ tasks' = Spawn(tasks, t.head)
    /\ log' = Append(log, "update")
    /\ UNCHANGED <<pc, result, stopped_by, exit_ready, arrived, completed,
                   diag, allowed_topics>>

\* The transport error leads to the save at the end of async_main.
TransportError_thenSave ==
    /\ pc = "select"
    /\ SelectWinner(exit_ready, TRUE) = "Right"
    /\ pc' = "draining"
    /\ stopped_by' = "transport"
    /\ log' = Append(log, "transport_error")
    /\ UNCHANGED <<result, exit_ready, inbox, arrived, received, tasks,
                   completed, diag, allowed_topics>>

\* Either::Right((u, _)) => u? with u = Err(e): async_main returns Err(e).
TransportError ==
    /\ pc = "select"
    /\ SelectWinner(exit_ready, TRUE) = "Right"
    /\ pc' = "returned"
    /\ result' = "Err"
    /\ stopped_by' = "transport"
    /\ log' = Append(log, "transport_error")
    /\ UNCHANGED <<exit_ready, inbox, arrived, received, tasks, completed,
                   diag, allowed_topics>>

\* The save is tried again when it fails.
SaveSession_retry(ok) ==
    /\ pc = "draining"
    /\ pc' = "returned"
    /\ result' = "Ok"
    /\ log' = IF ok THEN Append(log, "save") ELSE log \o <<"save", "save">>
    /\ UNCHANGED <<stopped_by, exit_ready, inbox, arrived, received, tasks,
                   completed, diag, allowed_topics>>

\* client.session().save_to_file(SESSION_FILE)?; Ok(())
SaveSession(ok) ==
    /\ pc = "draining"
    /\ pc' = "returned"
    /\ result' = IF ok THEN "Ok" ELSE "Err"
    /\ log' = Append(log, "save")
    /\ UNCHANGED <<stopped_by, exit_ready, inbox, arrived, received, tasks,
                   completed, diag, allowed_topics>>

---------------------------------------------------------------------------
(* main: block_on(async_main()) on a current-thread runtime *)

\* Spawned tasks are polled only while the block_on future is suspended,
\* and async_main suspends only in the select.
TasksCanRun == pc = "select"

\* The runtime leaves unfinished tasks running.
DropUnfinished_detached(ts) == ts

\* Dropping the runtime drops every task that has not finished.
DropUnfinished(ts) ==
    [i \in 1..Len(ts) |->
        IF Unfinished(ts[i].st) THEN [ts[i] EXCEPT !.st = "dropped"] ELSE ts[i]]

\* block_on returns, main returns, the runtime is dropped.
RuntimeDrop ==
    /\ pc = "returned"
    /\ pc' = "exited"
    /\ tasks' = DropUnfinished(tasks)
    /\ UNCHANGED <<result, stopped_by, exit_ready, inbox, arrived, received,
                   completed, diag, log, allowed_topics>>

---------------------------------------------------------------------------
(* The spawned handler tasks *)

\* First poll of the task: handle_update runs up to send_message().await,
\* or to its end when it sends nothing.
HandlerPoll(i) ==
    /\ TasksCanRun
    /\ i \in TaskIds
    /\ tasks[i].st = "spawned"
    /\ IF handle_update_sends(tasks[i].upd, allowed_topics)
       THEN /\ tasks' = [tasks EXCEPT ![i].st = "sending"]
            /\ UNCHANGED completed
       ELSE /\ tasks' = [tasks EXCEPT ![i].st = "ok"]
            /\ completed' = Append(completed, i)
    /\ UNCHANGED <<pc, result, stopped_by, exit_ready, inbox, arrived,
                   received, diag, log, allowed_topics>>

\* The handler's error is returned by async_main.
SendDone_propagates(i, ok) ==
    /\ TasksCanRun
    /\ i \in TaskIds
    /\ tasks[i].st = "sending"
    /\ tasks' = [tasks EXCEPT ![i].st = IF ok THEN "ok" ELSE "err"]
    /\ completed' = Append(completed, i)
    /\ pc' = IF ok THEN pc ELSE "returned"
    /\ result' = IF ok THEN result ELSE "Err"
    /\ stopped_by' = IF ok THEN stopped_by ELSE "handler"
    /\ UNCHANGED <<exit_ready, inbox, arrived, received, diag, log,
                   allowed_topics>>

\* send_message completes: Ok(_) => {}, Err(e) => eprintln!(...).
SendDone(i, ok) ==
    /\ TasksCanRun
    /\ i \in TaskIds
    /\ tasks[i].st = "sending"
    /\ tasks' = [tasks EXCEPT ![i].st = IF ok THEN "ok" ELSE "err"]
    /\ completed' = Append(completed, i)
    /\ diag' = IF ok THEN diag ELSE Append(diag, i)
    /\ log' = IF ok THEN log ELSE Append(log, "handler_err")
    /\ UNCHANGED <<pc, result, stopped_by, exit_ready, inbox, arrived,
                   received, allowed_topics>>

---------------------------------------------------------------------------
(* The dispatch specification *)

Next ==
    \/ \E a \in BOOLEAN : Startup(a) /\ UNCHANGED msgvars
    \/ StartupFail /\ UNCHANGED msgvars
    \/ SignInSaveFail /\ UNCHANGED msgvars
    \/ \E u \in Updates : Arrive(u) /\ UNCHANGED msgvars
    \/ RaiseShutdown /\ UNCHANGED msgvars
    \/ ShutdownObserved /\ UNCHANGED msgvars
    \/ FetchUpdate /\ UNCHANGED msgvars
    \/ TransportError /\ UNCHANGED msgvars
    \/ \E ok \in BOOLEAN : SaveSession(ok) /\ UNCHANGED msgvars
    \/ RuntimeDrop /\ UNCHANGED msgvars
    \/ \E i \in TaskIds : HandlerPoll(i) /\ UNCHANGED msgvars
    \/ \E i \in TaskIds, ok \in BOOLEAN : SendDone(i, ok) /\ UNCHANGED msgvars

Spec == Init /\ [][Next]_vars

\* The runtime polls the block_on future whenever one arm of its select is
\* ready; handler tasks get no fairness (send_message may never complete).
FairSpec ==
    Spec /\ WF_loopvars(ShutdownObserved) /\ WF_loopvars(FetchUpdate)

---------------------------------------------------------------------------
(* The snapshot specification: from_raw on every wire record, then queries *)

\* The lists of topic identifiers a caller passes to is_in_topics.
TopicLists == UNION {[1..n -> Ids] : n \in 0..MaxTopics}

\* The topic identifiers a caller passes to is_in_topic.
TopicArgsOf == 0..MaxId

Normalize(w) ==
    /\ wire = None
    /\ wire' = Some(w)
    /\ snapshot' = from_raw(w)
    /\ answer' = NoAnswer
    /\ UNCHANGED loopvars

\* The snapshot (if any) goes out of scope.
Discard ==
    /\ wire # None
    /\ wire' = None
    /\ snapshot' = None
    /\ answer' = NoAnswer
    /\ UNCHANGED loopvars

AskTopicId ==
    /\ IsSome(snapshot)
    /\ answer' = [op |-> "topic_id", val |-> topic_id(Unwrap(snapshot))]
    /\ UNCHANGED <<snapshot, wire>>
    /\ UNCHANGED loopvars

AskIsInTopic(t) ==
    /\ IsSome(snapshot)
    /\ answer' = [op |-> "is_in_topic", arg |-> t,
                  val |-> is_in_topic(Unwrap(snapshot), t)]
    /\ UNCHANGED <<snapshot, wire>>
    /\ UNCHANGED loopvars

AskIsInTopics(ids) ==
    /\ IsSome(snapshot)
    /\ answer' = [op |-> "is_in_topics", arg |-> ids,
                  val |-> is_in_topics(Unwrap(snapshot), ids)]
    /\ UNCHANGED <<snapshot, wire>>
    /\ UNCHANGED loopvars

\* Message::from_raw_short_updates on the acknowledgment of a local send.
NormalizeShort(u, i, c) ==
    /\ wire = None
    /\ wire' = Some([variant |-> "ShortSent", updates |-> u, input |-> i,
                     chat |-> c])
    /\ snapshot' = Some(from_raw_short_updates(u, i, c))
    /\ answer' = NoAnswer
    /\ UNCHANGED loopvars

AskIsForumTopic ==
    /\ IsSome(snapshot)
    /\ answer' = [op |-> "is_forum_topic",
                  val |-> is_forum_topic(Unwrap(snapshot))]
    /\ UNCHANGED <<snapshot, wire>>
    /\ UNCHANGED loopvars

AskOutgoing ==
    /\ IsSome(snapshot)
    /\ answer' = [op |-> "outgoing", val |-> outgoing(Unwrap(snapshot))]
    /\ UNCHANGED <<snapshot, wire>>
    /\ UNCHANGED loopvars

AskDebugTopicInfo(is_in_forum) ==
    /\ IsSome(snapshot)
    /\ answer' = [op |-> "debug_topic_info", arg |-> is_in_forum,
                  val |-> debug_topic_info(Unwrap(snapshot), is_in_forum)]
    /\ UNCHANGED <<snapshot, wire>>
    /\ UNCHANGED loopvars

\* A refetch that replaces the snapshot by the fetched message.
Refetch_inPlace(fetched) ==
    /\ IsSome(snapshot)
    /\ answer' = [op |-> "refetch", arg |-> fetched,
                  val |-> IF fetched THEN "Ok" ELSE "Err"]
    /\ snapshot' = IF fetched
                   THEN Some([Unwrap(snapshot) EXCEPT !.raw.message = "edited"])
                   ELSE snapshot
    /\ UNCHANGED wire
    /\ UNCHANGED loopvars

\* Message::refetch(&self): the error of get_messages_by_id is returned by
\* `?`; when the message was fetched the function ends in todo!().
Refetch(fetched) ==
    /\ IsSome(snapshot)
    /\ answer' = [op |-> "refetch", arg |-> fetched,
                  val |-> IF fetched THEN "panic" ELSE "Err"]
    /\ UNCHANGED <<snapshot, wire>>
    /\ UNCHANGED loopvars

\* handle_update on Update::NewMessage(snapshot), or on another update.
RunHandler(kind, topics, send_ok) ==
    /\ IsSome(snapshot)
    /\ LET update == IF kind = "NewMessage"
                     THEN [kind |-> kind, message |-> Unwrap(snapshot)]
                     ELSE [kind |-> kind]
       IN  answer' = [op |-> "handle_update",
                      arg |-> [kind |-> kind, topics |-> topics,
                               send_ok |-> send_ok],
                      val |-> handle_update(update, topics, send_ok)]
    /\ UNCHANGED <<snapshot, wire>>
    /\ UNCHANGED loopvars

UpdateKinds == {"NewMessage", "Other"}

\* The allowed_topics async_main can build: env::args().nth(2) gives no
\* topic or one.
HandlerTopics == {<< >>} \cup {<<t>> : t \in Ids}

NextMsg ==
    \/ \E w \in WireRecords : Normalize(w)
    \/ \E u \in ShortUpdates, i \in InputMessages : NormalizeShort(u, i, 1)
    \/ Discard
    \/ AskTopicId
    \/ \E t \in TopicArgsOf : AskIsInTopic(t)
    \/ \E ids \in TopicLists : AskIsInTopics(ids)
    \/ AskIsForumTopic
    \/ AskOutgoing
    \/ \E b \in BOOLEAN : AskDebugTopicInfo(b)
    \/ \E b \in BOOLEAN : Refetch(b)
    \/ \E k \in UpdateKinds, ids \in HandlerTopics, ok \in BOOLEAN :
          RunHandler(k, ids, ok)

SpecMsg == Init /\ [][NextMsg]_vars

---------------------------------------------------------------------------
(* Helpers of the properties *)

\* The steps of the dispatch loop itself: everything async_main logged from
\* its first select on.
IsLoopStep(e) == e \in {"update", "shutdown", "save", "transport_error"}
LoopLog == SelectSeq(log, IsLoopStep)

IsSave(e) == e = "save"
IsUpdate(e) == e = "update"
Saves == Len(SelectSeq(LoopLog, IsSave))
Fetches == Len(SelectSeq(LoopLog, IsUpdate))

UpdateSteps(n) == [i \in 1..n |-> "update"]

Left == pc \in {"draining", "returned", "exited"}
Ended == pc \in {"returned", "exited"}

\* i comes before j in the sequence s (both occur in it).
Before(s, i, j) ==
    \E a, b \in 1..Len(s) : a < b /\ s[a] = i /\ s[b] = j

---------------------------------------------------------------------------
(* C1 *)

\* C1: on the graceful shutdown path (N >= 0 updates received, then the
\* shutdown signal, no transport error) the loop's steps are exactly N update
\* hand-offs, then the observation of the shutdown, then one save: the save
\* occurs once, after the shutdown was observed, with no update fetched or
\* handed off between the two or after the save.
C1_SaveOnceAfterShutdown ==
    /\ (pc = "draining") =>
            LoopLog = UpdateSteps(Len(received)) \o <<"shutdown">>
    /\ (stopped_by = "shutdown" /\ Ended) =>
            /\ LoopLog = UpdateSteps(Len(received)) \o <<"shutdown", "save">>
            /\ Len(tasks) = Len(received)

\* The loop ended gracefully after two updates, with a handler still in flight.
C1_Witness ==
    /\ stopped_by = "shutdown"
    /\ pc = "returned"
    /\ Len(received) = 2
    /\ inbox # << >>
    /\ \E i \in TaskIds : tasks[i].st = "sending"

---------------------------------------------------------------------------
(* C2 *)

\* C2: at every moment the handler tasks spawned are exactly the updates
\* next_update returned, one task per update and in the same order, whatever
\* state (not yet run, in flight, Ok, Err) each handler is in; so after N
\* updates and the shutdown there are N tasks, and none when N = 0.
C2_OneTaskPerUpdate ==
    /\ Len(tasks) = Len(received)
    /\ Len(tasks) = Fetches
    /\ \A i \in TaskIds : tasks[i].n = received[i]
    /\ \A i, j \in TaskIds : tasks[i].n = tasks[j].n => i = j

\* Three updates, then the shutdown: one handler failed, one is still in
\* flight, one returned Ok.
C2_Witness ==
    /\ stopped_by = "shutdown"
    /\ Ended
    /\ Len(received) = 3
    /\ \E i, j, k \in TaskIds :
          tasks[i].st = "err" /\ tasks[j].st \in {"sending", "dropped"}
          /\ tasks[k].st = "ok"

---------------------------------------------------------------------------
(* C3 *)

\* The step in which the handler task i ends with an error.
HandlerFails(i) ==
    /\ i \in TaskIds
    /\ tasks[i].st = "sending"
    /\ tasks'[i].st = "err"

\* What such a step leaves alone: the loop, and every other task.
Isolated(i) ==
    /\ pc' = pc /\ result' = result /\ stopped_by' = stopped_by
    /\ inbox' = inbox /\ received' = received /\ exit_ready' = exit_ready
    /\ Len(tasks') = Len(tasks)
    /\ \A j \in TaskIds : j # i => tasks'[j] = tasks[j]
    /\ diag' = Append(diag, i)

\* C3: a handler that ends with an error changes only its own task and the
\* diagnostic sink (the loop's position and result and all other tasks stay
\* as they are); every failed task is reported exactly once; and with failed
\* handlers present every available update is still handed off (unless the
\* loop stops on a shutdown or a transport error first) and a raised shutdown
\* is still observed.
C3_HandlerErrorIsolated ==
    /\ [][\A i \in 1..MaxUpdates : HandlerFails(i) => Isolated(i)]_vars
    /\ [](\A i \in TaskIds :
            tasks[i].st = "err" <=> Len(SelectSeq(diag, LAMBDA d : d = i)) = 1)
    /\ (diag # << >> /\ pc = "select" /\ inbox # << >>)
          ~> (inbox = << >> \/ stopped_by # "none")
    /\ (diag # << >> /\ pc = "select" /\ exit_ready) ~> (pc = "draining")

\* A handler failed, and an update that arrived later was handed off and
\* handled, and the shutdown was then observed.
C3_Witness ==
    /\ pc = "draining"
    /\ \E i, j \in TaskIds :
          /\ i < j
          /\ tasks[i].st = "err"
          /\ tasks[j].st = "ok"
          /\ Before(completed, i, j)
    /\ \E a, b \in 1..Len(log) :
          a < b /\ log[a] = "handler_err" /\ log[b] = "update"

---------------------------------------------------------------------------
(* C4 *)

\* C4: when next_update fails the loop ends in that step and async_main
\* returns the error: the transport error is the last step of the loop, no
\* task was spawned for it, nothing is fetched afterwards and no save is made.
C4_TransportErrorEndsLoop ==
    stopped_by = "transport" =>
        /\ Ended
        /\ result = "Err"
        /\ LoopLog = UpdateSteps(Len(received)) \o <<"transport_error">>
        /\ Len(tasks) = Len(received)
        /\ Saves = 0

\* The transport failed after one update, with another update still to fetch.
C4_Witness ==
    /\ stopped_by = "transport"
    /\ Len(received) = 1
    /\ arrived = 2

---------------------------------------------------------------------------
(* C5 *)

\* C5 as claimed: the loop stops only on the shutdown signal or a transport
\* failure, and in both cases one save is attempted.
C5_Claimed ==
    (Ended /\ stopped_by # "startup") =>
        /\ stopped_by \in {"shutdown", "transport"}
        /\ Saves = 1

\* C5 as amended: the loop stops only on the shutdown signal or a transport
\* failure; one save is attempted when it stops on the shutdown signal and
\* none when it stops on a transport failure.
C5_StopsAndSaves ==
    /\ (Left /\ stopped_by # "startup") =>
            stopped_by \in {"shutdown", "transport"}
    /\ (Ended /\ stopped_by = "shutdown") => Saves = 1
    /\ (Ended /\ stopped_by = "transport") => Saves = 0
    /\ (pc \in {"init", "select"}) => (stopped_by = "none" /\ Saves = 0)

\* The loop stopped on a transport failure while handlers had failed before.
C5_Witness ==
    /\ Ended
    /\ stopped_by = "transport"
    /\ diag # << >>

---------------------------------------------------------------------------
(* C6 *)

\* C6 as claimed: no handler task is ever cancelled; once the program has
\* ended every spawned handler has finished with Ok or Err.
C6_Claimed ==
    /\ \A i \in TaskIds : tasks[i].st # "dropped"
    /\ pc = "exited" => \A i \in TaskIds : tasks[i].st \in {"ok", "err"}

\* C6 as amended: the loop never cancels a handler task (observing the
\* shutdown and saving the session leave every task as it is), but a task
\* that is unfinished when the loop observes the shutdown makes no more
\* progress and is dropped, unfinished, when async_main returns and main
\* drops the runtime: after the exit every task is finished or dropped, and
\* the dropped ones are those that were unfinished at the shutdown.
C6_DroppedAtExit ==
    /\ [][(pc \in {"select", "draining"} /\ pc' \in {"draining", "returned"})
            => tasks' = tasks]_vars
    /\ [][(pc \in {"draining", "returned"}) =>
            \A i \in TaskIds :
                /\ Unfinished(tasks[i].st) =>
                       tasks'[i].st \in {tasks[i].st, "dropped"}
                /\ ~Unfinished(tasks[i].st) => tasks'[i] = tasks[i]]_vars
    /\ [](pc # "exited" => \A i \in TaskIds : tasks[i].st # "dropped")
    /\ [](pc = "exited" =>
            \A i \in TaskIds : tasks[i].st \in {"ok", "err", "dropped"})

\* A handler was in flight when the loop observed the shutdown; the program
\* has ended and the handler was dropped.
C6_Witness ==
    /\ pc = "exited"
    /\ stopped_by = "shutdown"
    /\ result = "Ok"
    /\ \E i \in TaskIds : tasks[i].st = "dropped"
    /\ \E j \in TaskIds : tasks[j].st = "ok"

---------------------------------------------------------------------------
(* C7 *)

\* C7: while the loop runs it is always in its select, whatever the state of
\* the handlers: with an update available and no shutdown raised the hand-off
\* of that update is possible, and with the shutdown raised its observation
\* is possible, also when earlier handlers are unfinished.
C7_LoopNeverWaits ==
    /\ (pc = "select" /\ ~exit_ready /\ inbox # << >>) => ENABLED FetchUpdate
    /\ (pc = "select" /\ exit_ready) => ENABLED ShutdownObserved
    /\ (stopped_by = "none" /\ pc # "init") => pc = "select"

\* Two handlers are in flight and the loop has handed off a third update.
C7_Witness ==
    /\ pc = "select"
    /\ Len(tasks) = 3
    /\ tasks[1].st = "sending"
    /\ tasks[2].st = "sending"
    /\ tasks[3].st = "spawned"

---------------------------------------------------------------------------
(* C8 *)

\* C8: updates are handed off in arrival order (the i-th task handles the
\* i-th update that arrived), while any handler in flight may be the next to
\* complete, whatever the others are doing.
C8_HandoffInArrivalOrder ==
    /\ \A i \in TaskIds : tasks[i].n = i
    /\ \A i \in 1..Len(inbox) : inbox[i].n = Len(received) + i
    /\ \A i \in TaskIds :
          (pc = "select" /\ tasks[i].st = "sending") =>
              ENABLED SendDone(i, TRUE) /\ ENABLED SendDone(i, FALSE)

\* The handler of the second update completed before the handler of the first.
C8_Witness ==
    /\ Len(tasks) >= 2
    /\ Before(completed, 2, 1)
    /\ tasks[1].st = "ok"
    /\ tasks[2].st = "ok"
    /\ handle_update_sends(tasks[1].upd, allowed_topics)
    /\ handle_update_sends(tasks[2].upd, allowed_topics)

\* The handlers of two updates completed in arrival order.
C8_WitnessInOrder ==
    /\ Len(tasks) >= 2
    /\ Before(completed, 1, 2)
    /\ handle_update_sends(tasks[1].upd, allowed_topics)
    /\ handle_update_sends(tasks[2].upd, allowed_topics)

---------------------------------------------------------------------------
(* C9 *)

\* C9: once the shutdown arm is ready no update is fetched and no task is
\* spawned, also with updates available; the loop goes from its select to
\* Draining, to Stopped (async_main returned) only through the save, and
\* from there only to the exit, where nothing changes any more.
C9_NoUpdateAfterShutdown ==
    /\ [][(exit_ready \/ Left) =>
            /\ received' = received
            /\ Len(tasks') = Len(tasks)
            /\ Len(inbox') >= Len(inbox)
            /\ \A i \in 1..Len(inbox) : inbox'[i] = inbox[i]]_vars
    /\ [][/\ (pc = "draining" => pc' \in {"draining", "returned"})
          /\ (pc = "returned" => pc' \in {"returned", "exited"})
          /\ (pc = "exited" => vars' = vars)
          /\ (pc # "draining" /\ pc' = "draining" =>
                 pc = "select" /\ exit_ready)]_vars
    /\ []((stopped_by = "shutdown" /\ Ended) =>
            (Saves = 1 /\ LoopLog[Len(LoopLog)] = "save"))

\* The loop stopped on the shutdown signal and left an available update
\* unfetched.
C9_Witness ==
    /\ stopped_by = "shutdown"
    /\ pc = "exited"
    /\ inbox # << >>
    /\ Len(received) >= 1

---------------------------------------------------------------------------
(* C10 *)

\* C10: topic_id() is None for every message without a reply header and for
\* every message whose reply header has forum_topic = false, whatever
\* reply_to_top_id and reply_to_msg_id are.
C10_NoneWithoutFlag ==
    answer.op = "topic_id" =>
        LET r == Unwrap(snapshot).raw.reply_to
        IN  (\/ r = None
             \/ Unwrap(r).variant = "Other"
             \/ ~Unwrap(r).forum_topic) => answer.val = None

\* topic_id() was asked of a message whose header is not flagged and carries
\* both identifiers.
C10_Witness ==
    /\ answer.op = "topic_id"
    /\ IsSome(snapshot)
    /\ IsSome(Unwrap(snapshot).raw.reply_to)
    /\ Unwrap(Unwrap(snapshot).raw.reply_to).variant = "Header"
    /\ ~Unwrap(Unwrap(snapshot).raw.reply_to).forum_topic
    /\ IsSome(Unwrap(Unwrap(snapshot).raw.reply_to).reply_to_top_id)
    /\ IsSome(Unwrap(Unwrap(snapshot).raw.reply_to).reply_to_msg_id)
    /\ answer.val = None

---------------------------------------------------------------------------
(* Helpers of the snapshot properties *)

\* The reply header of the snapshot, when it is one of the two variants that
\* carry forum_topic, reply_to_top_id and reply_to_msg_id.
HasTopicHeader ==
    /\ IsSome(snapshot)
    /\ IsSome(Unwrap(snapshot).raw.reply_to)
    /\ Unwrap(Unwrap(snapshot).raw.reply_to).variant \in HeaderVariants
TopicHeader == Unwrap(Unwrap(snapshot).raw.reply_to)

\* The topic of the snapshot as section 4.2 of the design defines it, read
\* from the header's fields: a set with at most one element.
ResolvedTopics ==
    IF HasTopicHeader /\ TopicHeader.forum_topic
    THEN IF IsSome(TopicHeader.reply_to_top_id)
         THEN {Unwrap(TopicHeader.reply_to_top_id)}
         ELSE IF IsSome(TopicHeader.reply_to_msg_id)
              THEN {Unwrap(TopicHeader.reply_to_msg_id)}
              ELSE {}
    ELSE {}

Range(seq) == {seq[i] : i \in 1..Len(seq)}

---------------------------------------------------------------------------
(* C11 *)

\* C11: with forum_topic true and reply_to_top_id present, topic_id() is
\* Some(reply_to_top_id), whatever reply_to_msg_id is.
C11_TopIdFirst ==
    (answer.op = "topic_id" /\ HasTopicHeader) =>
        ((TopicHeader.forum_topic /\ IsSome(TopicHeader.reply_to_top_id)) =>
            answer.val = Some(Unwrap(TopicHeader.reply_to_top_id)))

\* Both identifiers are present and differ; topic_id() gave the top id.
C11_Witness ==
    /\ answer.op = "topic_id"
    /\ HasTopicHeader
    /\ TopicHeader.forum_topic
    /\ TopicHeader.reply_to_top_id = Some(2)
    /\ TopicHeader.reply_to_msg_id = Some(1)
    /\ answer.val = Some(2)

---------------------------------------------------------------------------
(* C12 *)

\* C12: with forum_topic true and reply_to_top_id absent, topic_id() is
\* reply_to_msg_id: Some(id) when it is present, None when it is absent too;
\* and whatever topic_id() returns for a flagged message is one of the two
\* identifiers of its header, never 0 or another made-up value.
C12_FallbackToMsgId ==
    (answer.op = "topic_id" /\ HasTopicHeader /\ TopicHeader.forum_topic) =>
        /\ (TopicHeader.reply_to_top_id = None =>
                answer.val = TopicHeader.reply_to_msg_id)
        /\ answer.val \in {TopicHeader.reply_to_top_id,
                           TopicHeader.reply_to_msg_id}
        /\ answer.val # Some(0)

\* A flagged message without any identifier: topic_id() gave None.
C12_Witness ==
    /\ answer.op = "topic_id"
    /\ HasTopicHeader
    /\ TopicHeader.forum_topic
    /\ TopicHeader.reply_to_top_id = None
    /\ TopicHeader.reply_to_msg_id = None
    /\ answer.val = None

---------------------------------------------------------------------------
(* C13 *)

\* C13: is_in_topics(ids) is true exactly when the message has a resolved
\* topic and that topic is an element of ids; so it is false for the empty
\* list and false when topic_id() is None.
C13_InTopicsIffMember ==
    answer.op = "is_in_topics" =>
        /\ answer.val <=> (\E t \in ResolvedTopics : t \in Range(answer.arg))
        /\ answer.val <=>
              (IsSome(topic_id(Unwrap(snapshot)))
               /\ Unwrap(topic_id(Unwrap(snapshot))) \in Range(answer.arg))
        /\ (answer.arg = << >> => ~answer.val)

\* A message with a resolved topic, asked with the empty list: false.
C13_Witness ==
    /\ answer.op = "is_in_topics"
    /\ answer.arg = << >>
    /\ ResolvedTopics # {}
    /\ answer.val = FALSE

\* A message in topic 2, asked with a list that holds 2 in second place: true.
C13_WitnessMember ==
    /\ answer.op = "is_in_topics"
    /\ answer.arg = <<1, 2>>
    /\ ResolvedTopics = {2}
    /\ answer.val = TRUE

---------------------------------------------------------------------------
(* C14 *)

\* C14: is_in_topic(t) is true exactly when topic_id() is Some(t); for a
\* message without a resolvable topic it is false for every t, 0 included.
C14_InTopicIffEqual ==
    answer.op = "is_in_topic" =>
        /\ answer.val <=> (answer.arg \in ResolvedTopics)
        /\ answer.val <=> (topic_id(Unwrap(snapshot)) = Some(answer.arg))

\* A flagged message without identifiers, asked for topic 0: false.
C14_Witness ==
    /\ answer.op = "is_in_topic"
    /\ answer.arg = 0
    /\ HasTopicHeader
    /\ TopicHeader.forum_topic
    /\ ResolvedTopics = {}
    /\ answer.val = FALSE

---------------------------------------------------------------------------
(* C15 *)

\* C15: from_raw yields no snapshot exactly when the record is the empty
\* variant (whatever its id), and one snapshot for every full-message record
\* and every service-message record.
C15_NoSnapshotIffEmpty ==
    (IsSome(wire) /\ Unwrap(wire).variant \in {"Empty", "Message", "Service"}) =>
        /\ (snapshot = None) <=> (Unwrap(wire).variant = "Empty")
        /\ Len(snapshot) <= 1
        /\ (Unwrap(wire).variant = "Message" =>
                snapshot = Some([raw |-> Unwrap(wire).msg, raw_action |-> None]))

\* An empty record with an id was normalized: there is no snapshot.
C15_Witness ==
    /\ IsSome(wire)
    /\ Unwrap(wire).variant = "Empty"
    /\ Unwrap(wire).id = 2
    /\ snapshot = None

---------------------------------------------------------------------------
(* C16 *)

\* C16: a service record gives a snapshot with empty text, action =
\* Some(the record's action), the flags the service shape lacks false, the
\* optional fields it lacks None, and the fields it carries equal to the
\* record's.
C16_ServiceDefaults ==
    (IsSome(wire) /\ Unwrap(wire).variant = "Service") =>
        /\ IsSome(snapshot)
        /\ LET s == Unwrap(snapshot)
               r == Unwrap(wire).msg
           IN  /\ s.raw.message = ""
               /\ s.raw_action = Some(r.action)
               /\ ~s.raw.pinned /\ ~s.raw.edit_hide /\ ~s.raw.from_scheduled
               /\ s.raw.media = None /\ s.raw.entities = None
               /\ s.raw.reply_markup = None /\ s.raw.views = None
               /\ s.raw.forwards = None /\ s.raw.replies = None
               /\ s.raw.reactions = None /\ s.raw.edit_date = None
               /\ s.raw.grouped_id = None
               /\ s.raw.id = r.id /\ s.raw.peer_id = r.peer_id
               /\ s.raw.from_id = r.from_id /\ s.raw.reply_to = r.reply_to
               /\ s.raw.date = r.date /\ s.raw.out = r.out
               /\ s.raw.mentioned = r.mentioned
               /\ s.raw.media_unread = r.media_unread
               /\ s.raw.silent = r.silent /\ s.raw.post = r.post

\* A service record with every carried flag set, a sender and a reply header
\* was normalized.
C16_Witness ==
    /\ IsSome(wire)
    /\ Unwrap(wire).variant = "Service"
    /\ Unwrap(wire).msg.media_unread
    /\ IsSome(Unwrap(wire).msg.from_id)
    /\ IsSome(Unwrap(wire).msg.reply_to)
    /\ IsSome(snapshot)
    /\ Unwrap(snapshot).raw_action = Some("PinMessage")
    /\ Unwrap(snapshot).raw.message = ""

---------------------------------------------------------------------------
(* C17 *)

\* The call an answer belongs to: the operation and its argument.
CallOf(a) == [a EXCEPT !.val = "-"]

\* What the constructor built from the recorded input.
Constructed ==
    IF wire = None THEN None
    ELSE IF Unwrap(wire).variant = "ShortSent"
         THEN Some(from_raw_short_updates(Unwrap(wire).updates,
                                          Unwrap(wire).input,
                                          Unwrap(wire).chat))
         ELSE from_raw(Unwrap(wire))

\* C17: no operation on a snapshot changes it. Every step that makes a
\* query, runs the handler on it or refetches it leaves the snapshot as it
\* was (refetch on a failed and on a successful fetch alike); the same call
\* made twice in a row returns the same result; and at every moment the
\* snapshot is still what its constructor built.
C17_SnapshotNeverMutates ==
    /\ [][answer'.op # "none" => snapshot' = snapshot]_vars
    /\ [][(answer.op \notin {"none", "refetch"} /\ CallOf(answer') = CallOf(answer))
            => answer'.val = answer.val]_vars
    /\ [](snapshot = Constructed)

\* refetch was called on a snapshot and the fetch succeeded.
C17_Witness ==
    /\ IsSome(snapshot)
    /\ answer.op = "refetch"
    /\ answer.arg = TRUE
    /\ answer.val = "panic"
    /\ snapshot = Constructed
    /\ Unwrap(snapshot).raw.message = "text"

---------------------------------------------------------------------------
(* C18 *)

\* C18: a snapshot built from a short-sent acknowledgment has a reply header
\* exactly when the outbound request had a reply target; the header has
\* reply_to_msg_id = the target, no reply_to_top_id and forum_topic = false;
\* action is None; so is_forum_topic() is false, topic_id() is None and
\* is_in_topics(ids) is false for every ids.
C18_ShortSentHasNoTopic ==
    (IsSome(wire) /\ Unwrap(wire).variant = "ShortSent") =>
        /\ IsSome(snapshot)
        /\ LET m == Unwrap(snapshot)
               target == Unwrap(wire).input.reply_to
           IN  /\ IsSome(m.raw.reply_to) <=> IsSome(target)
               /\ IsSome(target) =>
                    /\ Unwrap(m.raw.reply_to).variant \in HeaderVariants
                    /\ Unwrap(m.raw.reply_to).reply_to_msg_id = target
                    /\ Unwrap(m.raw.reply_to).reply_to_top_id = None
                    /\ Unwrap(m.raw.reply_to).forum_topic = FALSE
               /\ m.raw_action = None
               /\ ~is_forum_topic(m)
               /\ topic_id(m) = None
               /\ \A ids \in TopicLists : ~is_in_topics(m, ids)
        /\ (answer.op \in {"is_forum_topic", "is_in_topics"} => ~answer.val)
        /\ (answer.op = "topic_id" => answer.val = None)

\* A message sent as a reply to message 2: is_in_topics(<<2>>) is false.
C18_Witness ==
    /\ IsSome(wire)
    /\ Unwrap(wire).variant = "ShortSent"
    /\ Unwrap(wire).input.reply_to = Some(2)
    /\ answer.op = "is_in_topics"
    /\ answer.arg = <<2>>
    /\ answer.val = FALSE

---------------------------------------------------------------------------
(* C19 *)

\* C19: handle_update calls send_message exactly for a NewMessage that is not
\* outgoing, has forum_topic = true and has a resolved topic that is an
\* element of the allowed list; in every other case it sends nothing and
\* returns Ok; with the empty list it never sends.
C19_SendsOnlyAllowedTopics ==
    answer.op = "handle_update" =>
        /\ answer.val.sent <=>
              /\ answer.arg.kind = "NewMessage"
              /\ ~Unwrap(snapshot).raw.out
              /\ HasTopicHeader
              /\ TopicHeader.forum_topic
              /\ \E t \in ResolvedTopics : t \in Range(answer.arg.topics)
        /\ (~answer.val.sent => answer.val.ret = "Ok")
        /\ (answer.arg.topics = << >> => ~answer.val.sent)

\* An incoming message of topic 2 with topic 2 allowed: the handler sent.
C19_Witness ==
    /\ answer.op = "handle_update"
    /\ answer.arg.kind = "NewMessage"
    /\ answer.arg.topics = <<2>>
    /\ ResolvedTopics = {2}
    /\ TopicHeader.reply_to_top_id = None
    /\ answer.val.sent

\* An incoming flagged message without identifiers: nothing sent, Ok.
C19_WitnessUnknownTopic ==
    /\ answer.op = "handle_update"
    /\ answer.arg.kind = "NewMessage"
    /\ answer.arg.topics = <<1>>
    /\ HasTopicHeader
    /\ TopicHeader.forum_topic
    /\ ~Unwrap(snapshot).raw.out
    /\ ResolvedTopics = {}
    /\ ~answer.val.sent
    /\ answer.val.ret = "Ok"

===========================================================================
